---------------------------- MODULE Spec2Model ----------------------------
(***************************************************************************)
(* A model of the secret-sharing library: the prime-field threshold codec  *)
(* (split / reconstruct), the rational text codec (encode / decode) with   *)
(* Lagrange interpolation, and the polynomial operations they rest on.     *)
(*                                                                         *)
(* The library is a set of pure functions; each is an operator here,       *)
(* computed as the code computes it.  A few small harnesses   call them and  *)
(* record inputs and outputs in the state:                                 *)
(*   SpecRand    one call of randModP, draw by draw                        *)
(*   SpecShamir  one split, then one reconstruct over a list of its shares *)
(*   SpecCodec   encode then decode, decode of given points, interpolate   *)
(*   SpecPoly    two polynomial values and the operations applied to them  *)
(*                                                                         *)
(* Integers are exact (BigInt, BigRational).  The width of the random      *)
(* source (32 bits in the code) is scaled down to RandomBits, and the      *)
(* moduli to primes below 2^RandomBits.                                    *)
(***************************************************************************)
EXTENDS Integers, Sequences, FiniteSets, TLC

VARIABLES
    rand,       \* the call of randModP in progress: pc, p, lim, draws, v, r
    sPhase,     \* threshold harness: "idle", "split", "done"
    splitIn,    \* arguments of the split call: secret, n, t, p
    coeffs,     \* the polynomial sampled inside split (a0 = secret)
    splitOut,   \* result of split: err, shares
    recIn,      \* the share list handed to reconstruct
    recOut,     \* result of reconstruct: err, value
    cPhase,     \* codec harness: "idle", "encoded", "roundtrip", "decoded", "interpolated"
    encIn,      \* the secret handed to encode (sequence of character codes)
    encXs,      \* the random x-values drawn inside encode
    encOut,     \* result of encode: err, points
    decIn,      \* the points handed to decode
    decOut,     \* result of decode: err, text
    itpIn,      \* the points handed to interpolate
    itpOut,     \* result of interpolate: err, coefficients
    polys,      \* polynomial harness: the two polynomial values "p" and "q"
    last        \* the last polynomial operation: op, its operands, its result

vars == <<rand, sPhase, splitIn, coeffs, splitOut, recIn, recOut,
          cPhase, encIn, encXs, encOut, decIn, decOut, itpIn, itpOut,
          polys, last>>

shamirVars == <<rand, sPhase, splitIn, coeffs, splitOut, recIn, recOut>>
codecVars == <<cPhase, encIn, encXs, encOut, decIn, decOut, itpIn, itpOut>>
polyVars == <<polys, last>>

(***************************************************************************)
(* Bounds of the model.                                                    *)
(***************************************************************************)
\* number of shares asked of split: n in 0..MaxN, t in 1..MaxN+1
MaxN == 3
\* length of the share list handed to reconstruct
MaxPick == 3
\* width of the random source in bits (32 in the code)
RandomBits == 4
\* the moduli split and reconstruct are called with (primes below 2^RandomBits)
Moduli == {2, 3, 5}

(***************************************************************************)
(* Generic helpers.                                                        *)
(***************************************************************************)
RECURSIVE Pow(_, _)
Pow(b, e) == IF e = 0 THEN 1 ELSE b * Pow(b, e - 1)

Abs(a) == IF a < 0 THEN -a ELSE a

Max(a, b) == IF a >= b THEN a ELSE b

\* sequences over S of length lo..hi
SeqsOf(S, lo, hi) == UNION {[1..k -> S] : k \in lo..hi}

NoErr == "none"

(***************************************************************************)
(* Modular arithmetic (BigInt).                                            *)
(***************************************************************************)
\* BigInt a % p: the remainder takes the sign of the dividend
Rem(a, p) == IF a >= 0 THEN a % p ELSE -((-a) % p)

mod(a, p) == LET r == Rem(a, p) IN IF r >= 0 THEN r ELSE r + p

addm(a, b, p) == mod(a + b, p)

subm(a, b, p) == mod(a - b, p)

mulm(a, b, p) == mod(a * b, p)

\* the while loop of invm: runs until newR = 0, returns the final <<t, r>>
RECURSIVE invmLoop(_, _, _, _)
invmLoop(t, newT, r, newR) ==
    IF newR = 0 THEN <<t, r>>
    ELSE LET q == r \div newR
         IN invmLoop(newT, t - q * newT, newR, r - q * newR)

ErrNoInverse == "No inverse (a = 0 mod p)"

\* extended Euclid; err when the final r is not 1
invm(a, p) ==
    LET fin == invmLoop(0, 1, p, mod(a, p))
    IN IF fin[2] # 1 THEN [err |-> ErrNoInverse, value |-> 0]
       ELSE [err |-> NoErr, value |-> IF fin[1] < 0 THEN fin[1] + p ELSE fin[1]]

\* Horner: the loop from i = coeffs.length - 1 down to 0, y starting at 0
RECURSIVE evalPolyFrom(_, _, _, _, _)
evalPolyFrom(cs, x, p, i, y) ==
    IF i < 1 THEN y
    ELSE evalPolyFrom(cs, x, p, i - 1, addm(mulm(y, x, p), cs[i], p))

evalPoly(cs, x, p) == evalPolyFrom(cs, x, p, Len(cs), 0)

(***************************************************************************)
(* Random coefficients: rejection sampling.                                *)
(***************************************************************************)
\* M = 1n << 32n, scaled to RandomBits
RandomRange == Pow(2, RandomBits)

\* what random32 can return
random32 == 0..(RandomRange - 1)

randLimit(p) == RandomRange - (RandomRange % p)

\* the draws on which the loop of randModP returns
acceptedDraws(p) == {v \in random32 : v < randLimit(p)}

\* the values randModP(p) can return
randModP(p) == {v % p : v \in acceptedDraws(p)}

\* no call of randModP yet
RandIdle == [pc |-> "idle", p |-> 1, lim |-> 0, draws |-> 0, v |-> 0, r |-> 0]

(***************************************************************************)
(* split and reconstruct.                                                  *)
(***************************************************************************)
ErrSecretRange == "Secret out of range"
ErrThreshold == "Need 2 <= t <= n"
ErrNoShares == "No shares provided"
ErrDuplicateX == "Duplicate x in shares"

\* the coefficients split samples: a0 = secret, a1..a_{t-1} the random draws rnd
splitCoeffs(secret, p, rnd) == <<mod(secret, p)>> \o rnd

\* the share pushed for x
shareAt(cs, x, p) == [x |-> x, y |-> evalPoly(cs, x, p)]

\* mutant of sharesOf: the loop starts at x = 0
sharesOfFromZero(cs, n, p) == [i \in 1..n |-> shareAt(cs, i - 1, p)]

\* the shares loop: x = 1, 2, ... until shares.length = n
sharesOf(cs, n, p) == [x \in 1..n |-> shareAt(cs, x, p)]

\* mutant of split: the threshold check rejects t = n
splitRejectingTEqualN(secret, n, t, p, rnd) ==
    IF ~(0 <= secret /\ secret < p) THEN [err |-> ErrSecretRange, shares |-> <<>>]
    ELSE IF t < 2 \/ t >= n THEN [err |-> ErrThreshold, shares |-> <<>>]
    ELSE [err |-> NoErr, shares |-> sharesOf(splitCoeffs(secret, p, rnd), n, p)]

\* split(secret, n, t, p) when the random draws give the coefficients rnd
split(secret, n, t, p, rnd) ==
    IF ~(0 <= secret /\ secret < p) THEN [err |-> ErrSecretRange, shares |-> <<>>]
    ELSE IF t < 2 \/ t > n THEN [err |-> ErrThreshold, shares |-> <<>>]
    ELSE [err |-> NoErr, shares |-> sharesOf(splitCoeffs(secret, p, rnd), n, p)]

\* the inner loop over j # i: <<num, den>> of the Lagrange basis at 0
RECURSIVE basisAtZero(_, _, _, _, _, _)
basisAtZero(shares, p, i, j, num, den) ==
    IF j > Len(shares) THEN <<num, den>>
    ELSE IF j = i THEN basisAtZero(shares, p, i, j + 1, num, den)
    ELSE basisAtZero(shares, p, i, j + 1,
                     mulm(num, mod(-(shares[j].x), p), p),
                     mulm(den, subm(shares[i].x, shares[j].x, p), p))

\* the outer loop over i, secret accumulated; stops at the first invm failure
RECURSIVE lagrangeFrom(_, _, _, _)
lagrangeFrom(shares, p, i, secret) ==
    IF i > Len(shares) THEN [err |-> NoErr, value |-> secret]
    ELSE LET nd == basisAtZero(shares, p, i, 1, 1, 1)
             inv == invm(nd[2], p)
         IN IF inv.err # NoErr THEN [err |-> inv.err, value |-> 0]
            ELSE lagrangeFrom(shares, p, i + 1,
                     addm(secret, mulm(shares[i].y, mulm(nd[1], inv.value, p), p), p))

\* the seen-set check: x.toString() of two shares equal
hasDuplicateX(shares) ==
    \E i, j \in 1..Len(shares) : i < j /\ shares[i].x = shares[j].x

reconstruct(shares, p) ==
    IF Len(shares) = 0 THEN [err |-> ErrNoShares, value |-> 0]
    ELSE IF hasDuplicateX(shares) THEN [err |-> ErrDuplicateX, value |-> 0]
    ELSE lagrangeFrom(shares, p, 1, 0)

(***************************************************************************)
(* Threshold harness: one split, then one reconstruct over a list drawn    *)
(* from the shares split returned (any order, repeats allowed).            *)
(***************************************************************************)
ShamirInit ==
    /\ rand = RandIdle
    /\ sPhase = "idle"
    /\ splitIn = [secret |-> 0, n |-> 0, t |-> 0, p |-> 0]
    /\ coeffs = <<>>
    /\ splitOut = [err |-> NoErr, shares |-> <<>>]
    /\ recIn = <<>>
    /\ recOut = [err |-> NoErr, value |-> 0]

Split ==
    /\ sPhase = "idle"
    /\ \E p \in Moduli, n \in 0..MaxN, t \in 1..(MaxN + 1) :
         \E secret \in (-1)..p, rnd \in [1..(t - 1) -> randModP(p)] :
            LET out == split(secret, n, t, p, rnd)
            IN /\ splitIn' = [secret |-> secret, n |-> n, t |-> t, p |-> p]
               /\ splitOut' = out
               /\ coeffs' = IF out.err = NoErr THEN splitCoeffs(secret, p, rnd) ELSE <<>>
    /\ sPhase' = "split"
    /\ UNCHANGED <<rand, recIn, recOut, codecVars, polyVars>>

Reconstruct ==
    /\ sPhase = "split"
    /\ \E idx \in SeqsOf(1..Len(splitOut.shares), 0, MaxPick) :
         LET list == [k \in 1..Len(idx) |-> splitOut.shares[idx[k]]]
         IN /\ recIn' = list
            /\ recOut' = reconstruct(list, splitIn.p)
    /\ sPhase' = "done"
    /\ UNCHANGED <<rand, splitIn, coeffs, splitOut, codecVars, polyVars>>

(***************************************************************************)
(* randModP harness: one call, one action per turn of its loop.  The       *)
(* moduli are those split lets through its checks, up to one above the     *)
(* range of the random source.                                             *)
(***************************************************************************)
\* turns of the loop that discard their draw
MaxDraws == 2

RandModuli == 1..(RandomRange + 1)

\* randModP(p) is entered: M and lim are computed
RandCall ==
    /\ rand.pc = "idle"
    /\ \E p \in RandModuli :
         rand' = [RandIdle EXCEPT !.pc = "loop", !.p = p, !.lim = randLimit(p)]
    /\ UNCHANGED <<sPhase, splitIn, coeffs, splitOut, recIn, recOut, codecVars, polyVars>>

\* one turn of while (true): v = random32(); if (v < lim) return v % p
RandDraw ==
    /\ rand.pc = "loop"
    /\ rand.draws < MaxDraws
    /\ \E v \in random32 :
         rand' = IF v < rand.lim
                 THEN [rand EXCEPT !.pc = "returned", !.v = v, !.r = v % rand.p]
                 ELSE [rand EXCEPT !.draws = @ + 1, !.v = v]
    /\ UNCHANGED <<sPhase, splitIn, coeffs, splitOut, recIn, recOut, codecVars, polyVars>>

(***************************************************************************)
(* Exact rationals (BigRational): <<numerator, denominator>>, kept in      *)
(* lowest terms with a positive denominator.                               *)
(***************************************************************************)
RECURSIVE GCD(_, _)
GCD(a, b) == IF b = 0 THEN a ELSE GCD(b, a % b)

ratReduce(n, d) ==
    LET g == GCD(Abs(n), Abs(d))
        s == IF d < 0 THEN -1 ELSE 1
    IN <<(s * n) \div g, (s * d) \div g>>

toRational(k) == <<k, 1>>

ratAdd(a, b) == ratReduce(a[1] * b[2] + b[1] * a[2], a[2] * b[2])

ratSub(a, b) == ratReduce(a[1] * b[2] - b[1] * a[2], a[2] * b[2])

ratMul(a, b) == ratReduce(a[1] * b[1], a[2] * b[2])

\* b is not zero
ratDiv(a, b) == ratReduce(a[1] * b[2], a[2] * b[1])

ratEq(a, b) == a[1] * b[2] = b[1] * a[2]

ratIsInteger(a) == a[2] = 1

RECURSIVE ratPow(_, _)
ratPow(x, e) == IF e = 0 THEN toRational(1) ELSE ratMul(x, ratPow(x, e - 1))

(***************************************************************************)
(* Strings: sequences of one-character strings; a text is the sequence of  *)
(* its UTF-16 code units.                                                  *)
(***************************************************************************)
Digits == <<"0", "1", "2", "3", "4", "5", "6", "7", "8", "9">>

digitValue(c) == CHOOSE d \in 0..9 : Digits[d + 1] = c

isDigit(c) == \E d \in 0..9 : Digits[d + 1] = c

RECURSIVE natToString(_)
natToString(n) ==
    IF n < 10 THEN <<Digits[n + 1]>>
    ELSE natToString(n \div 10) \o <<Digits[(n % 10) + 1]>>

\* BigInt.prototype.toString, and the string of a Number that is an integer
intToString(n) == IF n < 0 THEN <<"-">> \o natToString(-n) ELSE natToString(n)

toSimpleString(r) ==
    LET numerator == r[1]
        denominator == r[2]
    IN IF denominator = 1 THEN intToString(numerator)
       ELSE IF denominator = -1 THEN intToString(-numerator)
       ELSE IF numerator < 0 /\ denominator < 0
            THEN intToString(-numerator) \o <<"/">> \o intToString(-denominator)
       ELSE intToString(numerator) \o <<"/">> \o intToString(denominator)

\* the value of the run of digits of s from position i on, acc so far
RECURSIVE digitRun(_, _, _)
digitRun(s, i, acc) ==
    IF i > Len(s) \/ ~isDigit(s[i]) THEN acc
    ELSE digitRun(s, i + 1, 10 * acc + digitValue(s[i]))

\* parseInt(s): an optional sign, then the leading digits; NaN when there are none
parseInt(s) ==
    LET signed == Len(s) > 0 /\ s[1] \in {"-", "+"}
        start == IF signed THEN 2 ELSE 1
        n == digitRun(s, start, 0)
    IN IF start > Len(s) \/ ~isDigit(s[start]) THEN [nan |-> TRUE, value |-> 0]
       ELSE [nan |-> FALSE, value |-> IF signed /\ s[1] = "-" THEN -n ELSE n]

CodeUnits == 65536

\* String.fromCharCode(n): ToUint16 of the number, NaN counting as 0
fromCharCode(n) == IF n.nan THEN 0 ELSE n.value % CodeUnits

(***************************************************************************)
(* Polynomials, dense form: the list of coefficients, entry k + 1 the      *)
(* coefficient of degree k.  interpolate builds and combines these.        *)
(***************************************************************************)
\* polynomial.coefficients[i] ?? toRational(0), i counted from 0
denseAt(poly, i) == IF i + 1 <= Len(poly) THEN poly[i + 1] ELSE toRational(0)

\* the inner loops of multiply restricted to i + j = k: the sum from i on
RECURSIVE convolve(_, _, _, _)
convolve(p1, p2, k, i) ==
    IF i > Len(p1) - 1 THEN toRational(0)
    ELSE LET j == k - i
             term == IF 0 <= j /\ j <= Len(p2) - 1
                     THEN ratMul(p1[i + 1], p2[j + 1])
                     ELSE toRational(0)
         IN ratAdd(term, convolve(p1, p2, k, i + 1))

denseMultiply(p1, p2) ==
    LET degree == (Len(p1) - 1) + (Len(p2) - 1)
    IN [k \in 1..(degree + 1) |-> convolve(p1, p2, k - 1, 0)]

denseAdd(p1, p2) ==
    LET degree == Max(Len(p1) - 1, Len(p2) - 1)
    IN [k \in 1..(degree + 1) |-> ratAdd(denseAt(p1, k - 1), denseAt(p2, k - 1))]

denseMultiplyWithRealNumber(poly, number) ==
    [k \in 1..Len(poly) |-> ratMul(poly[k], number)]

\* the value of a dense polynomial at x
RECURSIVE denseValueFrom(_, _, _)
denseValueFrom(poly, x, k) ==
    IF k > Len(poly) THEN toRational(0)
    ELSE ratAdd(ratMul(poly[k], ratPow(x, k - 1)), denseValueFrom(poly, x, k + 1))

denseValue(poly, x) == denseValueFrom(poly, x, 1)

(***************************************************************************)
(* Lagrange interpolation.                                                 *)
(***************************************************************************)
ErrTypeError == "TypeError"
ErrDivisionByZero == "DivisionByZero"

\* the factor (x - xj) / (xi - xj) as a degree-1 polynomial
multiplier(points, i, j) ==
    LET xi == points[i].x
        xj == points[j].x
        denominator == ratDiv(toRational(1), ratSub(xi, xj))
    IN <<ratMul(ratMul(toRational(-1), xj), denominator), denominator>>

\* the multipliers of point i, in the order of j
multipliers(points, i) ==
    LET js == [k \in 1..(Len(points) - 1) |-> IF k < i THEN k ELSE k + 1]
    IN [k \in 1..(Len(points) - 1) |-> multiplier(points, i, js[k])]

\* list.reduce(f) without an initial value, list not empty, from entry k on
RECURSIVE reduceMultiply(_, _, _)
reduceMultiply(list, k, acc) ==
    IF k > Len(list) THEN acc
    ELSE reduceMultiply(list, k + 1, denseMultiply(acc, list[k]))

RECURSIVE reduceAdd(_, _, _)
reduceAdd(list, k, acc) ==
    IF k > Len(list) THEN acc
    ELSE reduceAdd(list, k + 1, denseAdd(acc, list[k]))

\* the polynomial pushed to adders for point i
adder(points, i) ==
    LET ms == multipliers(points, i)
    IN denseMultiplyWithRealNumber(reduceMultiply(ms, 2, ms[1]), points[i].y)

\* xi - xj is zero for some pair: the division inside the loops fails
hasEqualX(points) ==
    \E i, j \in 1..Len(points) : i # j /\ ratEq(points[i].x, points[j].x)

interpolate(points) ==
    LET n == Len(points)
    IN IF hasEqualX(points) THEN [err |-> ErrDivisionByZero, coefficients |-> <<>>]
       \* multipliers.reduce (one point) or adders.reduce (no point) of an empty array
       ELSE IF n <= 1 THEN [err |-> ErrTypeError, coefficients |-> <<>>]
       ELSE LET adders == [i \in 1..n |-> adder(points, i)]
            IN [err |-> NoErr, coefficients |-> reduceAdd(adders, 2, adders[1])]

(***************************************************************************)
(* Polynomials, sparse form: the list of {coefficient, position} pairs in  *)
(* the order stored.                                                       *)
(***************************************************************************)
\* pairs: a list of <<integer coefficient, position>>
newPolynomialFromPairs(pairs) ==
    [k \in 1..Len(pairs) |->
        [coefficient |-> toRational(pairs[k][1]), position |-> pairs[k][2]]]

\* polynomial.coefficients[i]?.coefficient ?? toRational(0), i counted from 0
sparseAt(poly, i) ==
    IF i + 1 <= Len(poly) THEN poly[i + 1].coefficient ELSE toRational(0)

isNonZero(c) == ~ratEq(c, toRational(0))

\* .filter(non-zero).map((coefficient, position) => ({coefficient, position}))
filterAndNumber(array) ==
    LET kept == SelectSeq(array, isNonZero)
    IN [k \in 1..Len(kept) |-> [coefficient |-> kept[k], position |-> k - 1]]

add(polynomial1, polynomial2) ==
    LET degree == Max(Len(polynomial1) - 1, Len(polynomial2) - 1)
        coefficientsArray ==
            [k \in 1..(degree + 1) |->
                ratAdd(sparseAt(polynomial1, k - 1), sparseAt(polynomial2, k - 1))]
    IN filterAndNumber(coefficientsArray)

\* entry k of coefficientsArray after the loops i, j in 0..degree: the sum from i on
RECURSIVE sparseConvolve(_, _, _, _, _)
sparseConvolve(p1, p2, degree, k, i) ==
    IF i > degree THEN toRational(0)
    ELSE LET j == k - i
             term == IF 0 <= j /\ j <= degree
                     THEN ratMul(sparseAt(p1, i), sparseAt(p2, j))
                     ELSE toRational(0)
         IN ratAdd(term, sparseConvolve(p1, p2, degree, k, i + 1))

\* new Array(degree + 1) with degree + 1 < 0: both operands without terms
multiplyThrows(polynomial1, polynomial2) ==
    (Len(polynomial1) - 1) + (Len(polynomial2) - 1) + 1 < 0

\* the loops write entries 0..2*degree; polynomial1 and polynomial2 not both empty
multiply(polynomial1, polynomial2) ==
    LET degree == (Len(polynomial1) - 1) + (Len(polynomial2) - 1)
        coefficientsArray ==
            [k \in 1..(2 * degree + 1) |->
                sparseConvolve(polynomial1, polynomial2, degree, k - 1, 0)]
    IN filterAndNumber(coefficientsArray)

multiplyWithRealNumber(polynomial, number) ==
    [k \in 1..Len(polynomial) |->
        [coefficient |-> ratMul(polynomial[k].coefficient, number),
         position |-> polynomial[k].position]]

\* number is not zero
divideByRealNumber(polynomial, number) ==
    [k \in 1..Len(polynomial) |->
        [coefficient |-> ratDiv(polynomial[k].coefficient, number),
         position |-> polynomial[k].position]]

\* evaluate(polynomial, x): the sum of coefficient * x^position over the stored terms
RECURSIVE evaluateFrom(_, _, _)
evaluateFrom(polynomial, x, k) ==
    IF k > Len(polynomial) THEN toRational(0)
    ELSE ratAdd(ratMul(polynomial[k].coefficient, ratPow(x, polynomial[k].position)),
                evaluateFrom(polynomial, x, k + 1))

evaluate(polynomial, x) == evaluateFrom(polynomial, x, 1)

\* the coefficient a sparse polynomial stores at degree d (the sum, if several)
RECURSIVE coefficientAtFrom(_, _, _)
coefficientAtFrom(polynomial, d, k) ==
    IF k > Len(polynomial) THEN toRational(0)
    ELSE ratAdd(IF polynomial[k].position = d THEN polynomial[k].coefficient
                ELSE toRational(0),
                coefficientAtFrom(polynomial, d, k + 1))

coefficientAt(polynomial, d) == coefficientAtFrom(polynomial, d, 1)

(***************************************************************************)
(* print: the in-place sort, the joined terms, the textual replacements.   *)
(***************************************************************************)
startsWithAt(s, pat, i) ==
    /\ i >= 1
    /\ i + Len(pat) - 1 <= Len(s)
    /\ \A k \in 1..Len(pat) : s[i + k - 1] = pat[k]

\* replace the len characters of s from position i by rep
splice(s, i, len, rep) == SubSeq(s, 1, i - 1) \o rep \o SubSeq(s, i + len, Len(s))

\* the least element of a set of positions, 0 when it is empty
firstIndex(S) == IF S = {} THEN 0 ELSE CHOOSE i \in S : \A h \in S : i <= h

\* String.prototype.replace(pat, rep) with a string pattern: the first occurrence
replaceFirst(s, pat, rep) ==
    LET i == firstIndex({h \in 1..Len(s) : startsWithAt(s, pat, h)})
    IN IF i = 0 THEN s ELSE splice(s, i, Len(pat), rep)

\* the number of spaces of s from position i on
RECURSIVE spaces(_, _)
spaces(s, i) == IF i <= Len(s) /\ s[i] = " " THEN 1 + spaces(s, i + 1) ELSE 0

\* / \+\s?$/ -> "": " +" and at most one space, at the end
dropTrailingPlus(s) ==
    LET ends(i) == /\ startsWithAt(s, <<" ", "+">>, i)
                   /\ \/ i + 1 = Len(s)
                      \/ i + 2 = Len(s) /\ s[i + 2] = " "
        i == firstIndex({h \in 1..Len(s) : ends(h)})
    IN IF i = 0 THEN s ELSE SubSeq(s, 1, i - 1)

\* /\+\s*?\+/ -> "+": the first "+", spaces, "+"
mergeDoublePlus(s) ==
    LET hit(i) == s[i] = "+" /\ startsWithAt(s, <<"+">>, i + 1 + spaces(s, i + 1))
        i == firstIndex({h \in 1..Len(s) : hit(h)})
    IN IF i = 0 THEN s ELSE splice(s, i, spaces(s, i + 1) + 2, <<"+">>)

\* / \/\s*?1x/g -> "x": every " /", spaces, "1x"
RECURSIVE dropSlashOne(_)
dropSlashOne(s) ==
    LET hit(i) == /\ startsWithAt(s, <<" ", "/">>, i)
                  /\ startsWithAt(s, <<"1", "x">>, i + 2 + spaces(s, i + 2))
        i == firstIndex({h \in 1..Len(s) : hit(h)})
    IN IF i = 0 THEN s
       ELSE SubSeq(s, 1, i - 1) \o <<"x">>
            \o dropSlashOne(SubSeq(s, i + 4 + spaces(s, i + 2), Len(s)))

\* /\+ 0$/ -> "": "+ 0" at the end
dropTrailingZero(s) ==
    IF Len(s) >= 3 /\ startsWithAt(s, <<"+", " ", "0">>, Len(s) - 2)
    THEN SubSeq(s, 1, Len(s) - 3)
    ELSE s

RECURSIVE trimLeft(_)
trimLeft(s) == IF Len(s) > 0 /\ s[1] = " " THEN trimLeft(Tail(s)) ELSE s

RECURSIVE trimRight(_)
trimRight(s) ==
    IF Len(s) > 0 /\ s[Len(s)] = " " THEN trimRight(SubSeq(s, 1, Len(s) - 1)) ELSE s

trim(s) == trimLeft(trimRight(s))

\* Array.prototype.sort((a, b) => b.position - a.position): stable, descending
RECURSIVE insertByPosition(_, _)
insertByPosition(sorted, e) ==
    IF sorted = <<>> THEN <<e>>
    ELSE IF Head(sorted).position >= e.position
         THEN <<Head(sorted)>> \o insertByPosition(Tail(sorted), e)
         ELSE <<e>> \o sorted

RECURSIVE sortByPosition(_)
sortByPosition(polynomial) ==
    IF polynomial = <<>> THEN <<>>
    ELSE insertByPosition(sortByPosition(SubSeq(polynomial, 1, Len(polynomial) - 1)),
                          polynomial[Len(polynomial)])

printTerm(term) ==
    toSimpleString(term.coefficient) \o <<"x", "^">> \o intToString(term.position)

\* terms.join(" + ")
RECURSIVE joinTerms(_)
joinTerms(terms) ==
    IF terms = <<>> THEN <<>>
    ELSE IF Len(terms) = 1 THEN printTerm(terms[1])
    ELSE printTerm(terms[1]) \o <<" ", "+", " ">> \o joinTerms(Tail(terms))

\* the string print(polynomial) returns
print(polynomial) ==
    LET joined == joinTerms(sortByPosition(polynomial))
        r1 == replaceFirst(joined, <<"+", " ", "-">>, <<"-", " ">>)
        r2 == replaceFirst(r1, <<"x", "^", "0">>, <<>>)
        r3 == replaceFirst(r2, <<"x", "^", "1">>, <<"x">>)
        r4 == dropTrailingPlus(r3)
        r5 == mergeDoublePlus(r4)
        r6 == dropSlashOne(r5)
        r7 == replaceFirst(r6, <<"/", " ", "1">>, <<>>)
        r8 == dropTrailingZero(r7)
    IN trim(r8)

(***************************************************************************)
(* encode and decode.                                                      *)
(***************************************************************************)
MaxSecretLength == 6

ErrSecretTooLong == "Secret must be at most 6 characters long"

\* mutant of encode: the length check rejects 6 characters
encodeRejectingSix(secret, xs) ==
    IF Len(secret) >= MaxSecretLength THEN [err |-> ErrSecretTooLong, points |-> <<>>]
    ELSE LET polynomial ==
                 newPolynomialFromPairs([k \in 1..Len(secret) |-> <<secret[k], k - 1>>])
         IN [err |-> NoErr,
             points |-> [k \in 1..Len(secret) |->
                            [x |-> toRational(xs[k]),
                             y |-> evaluate(polynomial, toRational(xs[k]))]]]

\* encode(secret) when Math.random gives the x-values xs
encode(secret, xs) ==
    IF Len(secret) > MaxSecretLength THEN [err |-> ErrSecretTooLong, points |-> <<>>]
    ELSE LET polynomial ==
                 newPolynomialFromPairs([k \in 1..Len(secret) |-> <<secret[k], k - 1>>])
         IN [err |-> NoErr,
             points |-> [k \in 1..Len(secret) |->
                            [x |-> toRational(xs[k]),
                             y |-> evaluate(polynomial, toRational(xs[k]))]]]

\* decode reads the coefficients of the interpolated polynomial in stored order
decode(points) ==
    LET polynomial == interpolate(points)
    IN IF polynomial.err # NoErr THEN [err |-> polynomial.err, text |-> <<>>]
       ELSE [err |-> NoErr,
             text |-> [k \in 1..Len(polynomial.coefficients) |->
                          fromCharCode(parseInt(toSimpleString(
                              polynomial.coefficients[k])))]]

(***************************************************************************)
(* Codec harness: encode then decode of its points; decode or interpolate  *)
(* of a given point list.                                                  *)
(***************************************************************************)
\* the character codes secrets are made of ("H", "i")
Alphabet == {72, 105}
\* Math.floor(Math.random() * 100) gives 0..99; the model draws 0..MaxRandomX
MaxRandomX == 1
\* given point lists: at most MaxPoints points, x in 0..MaxPointX, y in PointYs
MaxPoints == 3
MaxPointX == 2
PointYs == {-1, 0, 2}

Secrets == SeqsOf(Alphabet, 0, MaxSecretLength + 1)

Points == {[x |-> toRational(x), y |-> toRational(y)] : x \in 0..MaxPointX, y \in PointYs}

PointLists == SeqsOf(Points, 0, MaxPoints)

CodecInit ==
    /\ cPhase = "idle"
    /\ encIn = <<>>
    /\ encXs = <<>>
    /\ encOut = [err |-> NoErr, points |-> <<>>]
    /\ decIn = <<>>
    /\ decOut = [err |-> NoErr, text |-> <<>>]
    /\ itpIn = <<>>
    /\ itpOut = [err |-> NoErr, coefficients |-> <<>>]

Encode ==
    /\ cPhase = "idle"
    /\ \E secret \in Secrets :
         \E xs \in [1..(IF Len(secret) > MaxSecretLength THEN 0 ELSE Len(secret))
                      -> 0..MaxRandomX] :
            /\ encIn' = secret
            /\ encXs' = xs
            /\ encOut' = encode(secret, xs)
    /\ cPhase' = "encoded"
    /\ UNCHANGED <<decIn, decOut, itpIn, itpOut, shamirVars, polyVars>>

\* decode(encode(secret)), or decode of a given list
Decode ==
    /\ IF cPhase = "encoded" THEN encOut.err = NoErr ELSE cPhase = "idle"
    /\ \E points \in IF cPhase = "encoded" THEN {encOut.points} ELSE PointLists :
         /\ decIn' = points
         /\ decOut' = decode(points)
    /\ cPhase' = IF cPhase = "encoded" THEN "roundtrip" ELSE "decoded"
    /\ UNCHANGED <<encIn, encXs, encOut, itpIn, itpOut, shamirVars, polyVars>>

Interpolate ==
    /\ cPhase = "idle"
    /\ \E points \in PointLists :
         /\ itpIn' = points
         /\ itpOut' = interpolate(points)
    /\ cPhase' = "interpolated"
    /\ UNCHANGED <<encIn, encXs, encOut, decIn, decOut, shamirVars, polyVars>>

(***************************************************************************)
(* Polynomial harness: two polynomials built by newPolynomialFromPairs,    *)
(* and the operations called on them.  print sorts the list it is given.   *)
(* A run is any number of print calls followed by one other operation.     *)
(***************************************************************************)
\* pairs handed to newPolynomialFromPairs: at most MaxTerms pairs, distinct
\* degrees in 0..MaxDegree in any order, coefficients in Coefficients
MaxTerms == 2
MaxDegree == 2
Coefficients == {-1, 0, 1}
Scalars == {toRational(0), toRational(2), <<-1, 2>>}

PairLists ==
    {pairs \in SeqsOf(Coefficients \X (0..MaxDegree), 0, MaxTerms) :
        \A i, j \in 1..Len(pairs) : i # j => pairs[i][2] # pairs[j][2]}

Registers == {"p", "q"}

NoOp == [op |-> "none", a |-> <<>>, b |-> <<>>, c |-> <<>>, number |-> toRational(0),
         err |-> NoErr, result |-> <<>>, regrouped |-> <<>>, text |-> <<>>]

PolyIdle ==
    /\ polys = [r \in Registers |-> <<>>]
    /\ last = NoOp

PolyInit ==
    /\ polys \in [Registers -> {newPolynomialFromPairs(pairs) : pairs \in PairLists}]
    /\ last = NoOp

PrintPolynomial ==
    /\ last.op \in {"none", "print"}
    /\ \E r \in Registers :
         /\ last' = [NoOp EXCEPT !.op = "print", !.a = polys[r],
                                 !.text = print(polys[r])]
         /\ polys' = [polys EXCEPT ![r] = sortByPosition(polys[r])]
    /\ UNCHANGED <<shamirVars, codecVars>>

Add ==
    /\ last.op \in {"none", "print"}
    /\ \E r1, r2 \in Registers :
         last' = [NoOp EXCEPT !.op = "add", !.a = polys[r1], !.b = polys[r2],
                              !.result = add(polys[r1], polys[r2])]
    /\ UNCHANGED <<polys, shamirVars, codecVars>>

\* add(add(p, q), c) and add(p, add(q, c)) for a third polynomial c
AddThree ==
    /\ last.op \in {"none", "print"}
    /\ \E pairs \in PairLists :
         LET c == newPolynomialFromPairs(pairs)
         IN last' = [NoOp EXCEPT !.op = "addThree", !.a = polys["p"],
                        !.b = polys["q"], !.c = c,
                        !.result = add(add(polys["p"], polys["q"]), c),
                        !.regrouped = add(polys["p"], add(polys["q"], c))]
    /\ UNCHANGED <<polys, shamirVars, codecVars>>

Multiply ==
    /\ last.op \in {"none", "print"}
    /\ \E r1, r2 \in Registers :
         last' = [NoOp EXCEPT !.op = "multiply", !.a = polys[r1], !.b = polys[r2],
                     !.err = IF multiplyThrows(polys[r1], polys[r2])
                             THEN "RangeError" ELSE NoErr,
                     !.result = IF multiplyThrows(polys[r1], polys[r2])
                                THEN <<>> ELSE multiply(polys[r1], polys[r2])]
    /\ UNCHANGED <<polys, shamirVars, codecVars>>

MultiplyWithRealNumber ==
    /\ last.op \in {"none", "print"}
    /\ \E r \in Registers, number \in Scalars :
         last' = [NoOp EXCEPT !.op = "multiplyWithRealNumber", !.a = polys[r],
                     !.number = number,
                     !.result = multiplyWithRealNumber(polys[r], number)]
    /\ UNCHANGED <<polys, shamirVars, codecVars>>

\* dividing a coefficient by zero fails; a polynomial without terms divides nothing
DivideByRealNumber ==
    /\ last.op \in {"none", "print"}
    /\ \E r \in Registers, number \in Scalars :
         LET fails == ~isNonZero(number) /\ polys[r] # <<>>
         IN last' = [NoOp EXCEPT !.op = "divideByRealNumber", !.a = polys[r],
                        !.number = number,
                        !.err = IF fails THEN ErrDivisionByZero ELSE NoErr,
                        !.result = IF fails THEN <<>>
                                   ELSE divideByRealNumber(polys[r], number)]
    /\ UNCHANGED <<polys, shamirVars, codecVars>>

(***************************************************************************)
(* Specifications.                                                         *)
(***************************************************************************)
RandNext == RandCall \/ RandDraw

InitRand == ShamirInit /\ CodecInit /\ PolyIdle

SpecRand == InitRand /\ [][RandNext]_vars

ShamirNext == Split \/ Reconstruct

InitShamir == ShamirInit /\ CodecInit /\ PolyIdle

SpecShamir == InitShamir /\ [][ShamirNext]_vars

CodecNext == Encode \/ Decode \/ Interpolate

InitCodec == ShamirInit /\ CodecInit /\ PolyIdle

SpecCodec == InitCodec /\ [][CodecNext]_vars

PolyNext ==
    \/ PrintPolynomial \/ Add \/ AddThree \/ Multiply
    \/ MultiplyWithRealNumber \/ DivideByRealNumber

InitPoly == ShamirInit /\ CodecInit /\ PolyInit

SpecPoly == InitPoly /\ [][PolyNext]_vars

(***************************************************************************)
(* Properties of the threshold codec (SpecShamir).                         *)
(***************************************************************************)
\* reconstruct was handed distinct shares of a successful split
pickedDistinctShares ==
    /\ sPhase = "done"
    /\ splitOut.err = NoErr
    /\ ~hasDuplicateX(recIn)

\* C1: threshold round-trip: for every modulus, secret in [0, p), 2 <= t <= n
\* and random coefficients, reconstruct of any t or more distinct shares of
\* split(secret, n, t), in any order, returns exactly the secret.
C1_RoundTrip ==
    (pickedDistinctShares /\ Len(recIn) >= splitIn.t)
        => (recOut.err = NoErr /\ recOut.value = splitIn.secret)

\* the number of coefficient vectors in [0, p)^(t-1) with which split, for the
\* secret s, produces every share of list (the share split pushes for that x)
vectorsProducing(s, list) ==
    Cardinality({rnd \in [1..(splitIn.t - 1) -> 0..(splitIn.p - 1)] :
        LET cs == splitCoeffs(s, splitIn.p, rnd)
        IN \A k \in 1..Len(list) : shareAt(cs, list[k].x, splitIn.p) = list[k]})

\* a set of shares, listed once: by increasing x
listsASet(list) == \A k \in 1..(Len(list) - 1) : list[k].x < list[k + 1].x

\* C3: fewer than t shares reveal nothing: with 2 <= t <= n < p, every set of
\* t - 1 shares handed to reconstruct is produced by the same number of
\* coefficient vectors whatever the secret in [0, p); and reconstruct of those
\* t - 1 shares (in any order) returns a value in [0, p) instead of raising an
\* error.
C3_Secrecy ==
    (pickedDistinctShares /\ splitIn.n < splitIn.p /\ Len(recIn) = splitIn.t - 1)
        => /\ listsASet(recIn) =>
                Cardinality({vectorsProducing(s, recIn) : s \in 0..(splitIn.p - 1)}) = 1
           /\ recOut.err = NoErr
           /\ recOut.value \in 0..(splitIn.p - 1)

\* C3 witness: two of the shares of a t = 3 split reconstruct to a value that is
\* not the secret.
C3_Witness ==
    /\ pickedDistinctShares
    /\ splitIn.n < splitIn.p
    /\ splitIn.t = 3
    /\ Len(recIn) = 2
    /\ listsASet(recIn)
    /\ recOut.err = NoErr
    /\ recOut.value # splitIn.secret

\* C4: split raises an error and returns no shares whenever secret < 0 or
\* secret >= p, and whenever t < 2 or t > n; in every other case it returns
\* exactly n shares.
C4_SplitErrors ==
    sPhase # "idle" =>
        IF \/ splitIn.secret < 0 \/ splitIn.secret >= splitIn.p
           \/ splitIn.t < 2 \/ splitIn.t > splitIn.n
        THEN splitOut.err # NoErr /\ splitOut.shares = <<>>
        ELSE splitOut.err = NoErr /\ Len(splitOut.shares) = splitIn.n

\* C4 witness: a split with a secret in range and t > n has failed.
C4_Witness ==
    /\ sPhase = "split"
    /\ 0 <= splitIn.secret /\ splitIn.secret < splitIn.p
    /\ splitIn.t > splitIn.n
    /\ splitOut.err = ErrThreshold

\* C5: reconstruct raises an error when the list is empty and when two shares
\* of the list have the same x; when the list is not empty and all x differ it
\* returns a value and raises no error.
C5_ReconstructErrors ==
    sPhase = "done" =>
        IF Len(recIn) = 0 \/ hasDuplicateX(recIn)
        THEN recOut.err # NoErr
        ELSE recOut.err = NoErr

(***************************************************************************)
(* Properties of the rational codec and of interpolation (SpecCodec).      *)
(***************************************************************************)
\* C2: rational round-trip: for every secret of length 0 to 6 and every outcome
\* of the random x-values, decode(encode(secret)) returns the secret without
\* raising an error.
C2_RoundTrip ==
    cPhase = "roundtrip" => (decOut.err = NoErr /\ decOut.text = encIn)

\* the value at x of the polynomial whose coefficient at degree i is the code
\* of character i of the secret (first character = constant term)
RECURSIVE secretPolynomialAt(_, _)
secretPolynomialAt(secret, x) ==
    IF secret = <<>> THEN 0 ELSE Head(secret) + x * secretPolynomialAt(Tail(secret), x)

\* C6: encode raises an error exactly when the secret has more than 6
\* characters; for a secret of length L <= 6 it returns exactly L points, each
\* with y the value at x of the polynomial whose coefficients are the character
\* codes.
C6_Encode ==
    cPhase \in {"encoded", "roundtrip"} =>
        /\ (encOut.err # NoErr) <=> (Len(encIn) > 6)
        /\ Len(encIn) <= 6 =>
              /\ Len(encOut.points) = Len(encIn)
              /\ \A k \in 1..Len(encIn) :
                    /\ encOut.points[k].x = toRational(encXs[k])
                    /\ ratEq(encOut.points[k].y,
                             toRational(secretPolynomialAt(encIn, encXs[k])))

\* C6 witness: a secret of 6 characters was encoded into 6 points.
C6_Witness ==
    /\ cPhase = "encoded"
    /\ Len(encIn) = 6
    /\ encOut.err = NoErr
    /\ Len(encOut.points) = 6

\* a coefficient that is a non-negative integer representable as a character code
isCharacterCode(c) == ratIsInteger(c) /\ 0 <= c[1] /\ c[1] < CodeUnits

\* C7: decode raises InvalidCharacterCode whenever a coefficient of the
\* interpolated polynomial is not a non-negative integer representable as a
\* character code; otherwise it returns the characters of the coefficients in
\* ascending degree order.
C7_DecodeRejects ==
    (cPhase \in {"decoded", "roundtrip"} /\ interpolate(decIn).err = NoErr) =>
        LET cs == interpolate(decIn).coefficients
        IN IF \E k \in 1..Len(cs) : ~isCharacterCode(cs[k])
           THEN decOut.err = "InvalidCharacterCode"
           ELSE decOut.err = NoErr /\ decOut.text = [k \in 1..Len(cs) |-> cs[k][1]]

\* C8: for every non-empty list of n points with pairwise-distinct x (n = 1
\* included), interpolate returns a polynomial of degree at most n - 1 whose
\* value at each xi is exactly yi.
C8_Interpolates ==
    (cPhase = "interpolated" /\ Len(itpIn) >= 1 /\ ~hasEqualX(itpIn)) =>
        /\ itpOut.err = NoErr
        /\ Len(itpOut.coefficients) <= Len(itpIn)
        /\ \A k \in 1..Len(itpIn) :
              ratEq(denseValue(itpOut.coefficients, itpIn[k].x), itpIn[k].y)

(***************************************************************************)
(* Properties of the polynomial operations (SpecPoly).                     *)
(***************************************************************************)
\* C9: polynomials are immutable: no operation changes the contents or the
\* order of the coefficient list of a polynomial passed to it, so that print(p),
\* add(p, q) and multiply(p, q) give after a call what they gave before it.
C9_Immutable ==
    [][/\ polys' = polys
       /\ print(polys'["p"]) = print(polys["p"])
       /\ add(polys'["p"], polys'["q"]) = add(polys["p"], polys["q"])
       /\ multiplyThrows(polys["p"], polys["q"])
            \/ multiply(polys'["p"], polys'["q"]) = multiply(polys["p"], polys["q"])]_vars

\* the degrees a polynomial of the harness or a result can store
StoredDegrees == 0..(MaxDegree + MaxTerms)

\* C10: for p and q built by newPolynomialFromPairs (distinct degrees, in any
\* order, gaps allowed), add(p, q) has at every degree d the coefficient of p at
\* d plus the coefficient of q at d, each stored at its own degree, zero sums
\* dropped.
C10_AddPerDegree ==
    last.op = "add" =>
        /\ \A d \in StoredDegrees :
              ratEq(coefficientAt(last.result, d),
                    ratAdd(coefficientAt(last.a, d), coefficientAt(last.b, d)))
        /\ \A k \in 1..Len(last.result) : isNonZero(last.result[k].coefficient)
        /\ \A i, j \in 1..Len(last.result) :
              i # j => last.result[i].position # last.result[j].position

\* the degrees a product of two polynomials of the harness can store
ProductDegrees == 0..(2 * (MaxDegree + MaxTerms))

\* a polynomial with a non-zero coefficient at some degree
isNonZeroPolynomial(polynomial) ==
    \E d \in ProductDegrees : isNonZero(coefficientAt(polynomial, d))

\* the largest degree at which a non-zero polynomial has a non-zero coefficient
degreeOf(polynomial) ==
    CHOOSE d \in ProductDegrees :
        /\ isNonZero(coefficientAt(polynomial, d))
        /\ \A e \in ProductDegrees : e > d => ~isNonZero(coefficientAt(polynomial, e))

\* the sum over i + j = k, from i on, of p[i] * q[j] with coefficients taken by degree
RECURSIVE productAtFrom(_, _, _, _)
productAtFrom(p1, p2, k, i) ==
    IF i > k THEN toRational(0)
    ELSE ratAdd(ratMul(coefficientAt(p1, i), coefficientAt(p2, k - i)),
                productAtFrom(p1, p2, k, i + 1))

\* C11: for non-zero p and q built by newPolynomialFromPairs, multiply(p, q)
\* returns a polynomial of degree deg(p) + deg(q) whose coefficient at every
\* degree k is the sum over i + j = k of p[i] * q[j], stored at degree k, also
\* when some of those sums are zero.
C11_MultiplyConvolution ==
    (last.op = "multiply" /\ isNonZeroPolynomial(last.a) /\ isNonZeroPolynomial(last.b))
        => /\ last.err = NoErr
           /\ isNonZeroPolynomial(last.result)
           /\ degreeOf(last.result) = degreeOf(last.a) + degreeOf(last.b)
           /\ \A k \in ProductDegrees :
                 ratEq(coefficientAt(last.result, k), productAtFrom(last.a, last.b, k, 0))

\* two polynomials with the same coefficient at every degree
samePolynomial(p1, p2) ==
    \A d \in ProductDegrees : ratEq(coefficientAt(p1, d), coefficientAt(p2, d))

\* C12: add is commutative and associative: add(p, q) equals add(q, p), and
\* add(add(p, q), r) equals add(p, add(q, r)), as polynomials (the same
\* coefficient at every degree), also when an intermediate sum has a zero
\* coefficient.
C12_AddLaws ==
    /\ last.op = "add" => samePolynomial(last.result, add(last.b, last.a))
    /\ last.op = "addThree" => samePolynomial(last.result, last.regrouped)

\* add(p, q) and add(q, p) agree on every pair of operands of the harness
C12_AddCommutes ==
    last.op = "add" => samePolynomial(last.result, add(last.b, last.a))

\* a term of the canonical form: a coefficient of one (and its sign) without an
\* explicit factor before x, no x at degree 0, x at degree 1, x^d above
canonicalTerm(c, d) ==
    LET factor == IF d > 0 /\ ratEq(c, toRational(1)) THEN <<>>
                  ELSE IF d > 0 /\ ratEq(c, toRational(-1)) THEN <<"-">>
                  ELSE toSimpleString(c)
        power == IF d = 0 THEN <<>>
                 ELSE IF d = 1 THEN <<"x">>
                 ELSE <<"x", "^">> \o intToString(d)
    IN factor \o power

\* the non-zero terms at degrees d, d - 1, ..., 0 joined by " + "
RECURSIVE canonicalFrom(_, _)
canonicalFrom(polynomial, d) ==
    IF d < 0 THEN <<>>
    ELSE LET c == coefficientAt(polynomial, d)
             rest == canonicalFrom(polynomial, d - 1)
         IN IF ~isNonZero(c) THEN rest
            ELSE IF rest = <<>> THEN canonicalTerm(c, d)
            ELSE canonicalTerm(c, d) \o <<" ", "+", " ">> \o rest

\* the canonical form, "0" for a polynomial without non-zero terms
canonicalText(polynomial) ==
    LET text == canonicalFrom(polynomial, MaxDegree + MaxTerms)
    IN IF text = <<>> THEN <<"0">> ELSE text

\* C13: print(p) renders every polynomial in the canonical form: terms in
\* descending degree joined by " + " (a "+ -" written as such or collapsed to
\* "- "), zero-coefficient terms omitted wherever they occur, degree 0 without
\* x, degree 1 as x, a coefficient of one without an explicit factor, and "0"
\* for a polynomial without non-zero terms, also one without stored terms.
C13_PrintCanonical ==
    last.op = "print" =>
        \/ last.text = canonicalText(last.a)
        \/ last.text = replaceFirst(canonicalText(last.a), <<"+", " ", "-">>, <<"-", " ">>)

(***************************************************************************)
(* Further properties of the threshold codec (SpecShamir).                 *)
(***************************************************************************)
\* C14: after a successful split(secret, n, t, p) the shares have x = 1, ..., n,
\* no x is congruent modulo p to 0 or to the x of another share (so no share is
\* the polynomial's value at 0), and every y is in [0, p) and is the value
\* modulo p of the sampled polynomial at x.
C14_ShareAbscissas ==
    (sPhase # "idle" /\ splitOut.err = NoErr) =>
        /\ Len(splitOut.shares) = splitIn.n
        /\ \A i \in 1..Len(splitOut.shares) :
              /\ splitOut.shares[i].x = i
              /\ splitOut.shares[i].x % splitIn.p # 0
              /\ splitOut.shares[i].y \in 0..(splitIn.p - 1)
              /\ splitOut.shares[i].y = evalPoly(coeffs, i, splitIn.p)
        /\ \A i, j \in 1..Len(splitOut.shares) :
              i # j => (splitOut.shares[i].x - splitOut.shares[j].x) % splitIn.p # 0

(***************************************************************************)
(* Further properties of the rational codec (SpecCodec).                   *)
(***************************************************************************)
\* C15: for every secret of 2 to 6 characters and every outcome of the random
\* draws, the points encode returns have pairwise distinct x values.
C15_EncodeDistinctX ==
    (cPhase \in {"encoded", "roundtrip"} /\ Len(encIn) \in 2..MaxSecretLength)
        => /\ encOut.err = NoErr
           /\ ~hasEqualX(encOut.points)

(***************************************************************************)
(* Further properties of the polynomial operations (SpecPoly).             *)
(***************************************************************************)
\* a polynomial that stores no coefficient equal to zero
storesNoZero(polynomial) ==
    \A k \in 1..Len(polynomial) : isNonZero(polynomial[k].coefficient)

\* C16: canonical sparse form is an invariant: every polynomial returned by
\* newPolynomialFromPairs, add, multiply, multiplyWithRealNumber or
\* divideByRealNumber stores no coefficient equal to zero.
C16_CanonicalForm ==
    /\ \A r \in Registers : storesNoZero(polys[r])
    /\ last.op \in {"add", "addThree", "multiply", "multiplyWithRealNumber",
                    "divideByRealNumber"}
          => storesNoZero(last.result)

\* add and multiply return polynomials without a stored zero
C16_SumsAndProducts ==
    last.op \in {"add", "addThree", "multiply"}
        => storesNoZero(last.result) /\ storesNoZero(last.regrouped)

(***************************************************************************)
(* Properties of randModP (SpecRand).                                      *)
(***************************************************************************)
\* C17: for every modulus p that split accepts, the bound lim of randModP(p) is
\* a positive multiple of p, every r in [0, p) is the image of exactly lim / p
\* of the draws below lim, a draw that did not end the loop was >= lim, and the
\* loop returns on the first draw v below lim, with r = v mod p in [0, p).
C17_RandModP ==
    rand.pc # "idle" =>
        /\ rand.lim > 0
        /\ rand.lim % rand.p = 0
        /\ \A r \in 0..(rand.p - 1) :
              Cardinality({v \in acceptedDraws(rand.p) : v % rand.p = r})
                  = rand.lim \div rand.p
        /\ (rand.pc = "loop" /\ rand.draws > 0) => rand.v >= rand.lim
        /\ rand.pc = "returned" =>
              /\ rand.v < rand.lim
              /\ rand.r = rand.v % rand.p
              /\ rand.r \in 0..(rand.p - 1)
              /\ rand.r \in randModP(rand.p)

\* the same, for the moduli within the range of the random source
C17_WithinRange ==
    (rand.pc # "idle" /\ rand.p <= RandomRange) =>
        /\ rand.lim > 0
        /\ rand.lim % rand.p = 0
        /\ \A r \in 0..(rand.p - 1) :
              Cardinality({v \in acceptedDraws(rand.p) : v % rand.p = r})
                  = rand.lim \div rand.p
        /\ (rand.pc = "loop" /\ rand.draws > 0) => rand.v >= rand.lim
        /\ rand.pc = "returned" =>
              /\ rand.v < rand.lim
              /\ rand.r = rand.v % rand.p
              /\ rand.r \in 0..(rand.p - 1)
              /\ rand.r \in randModP(rand.p)

=============================================================================
